---- MODULE Spec2Model ----
(***************************************************************************)
(* Model of dataflows/processors/unpivot.py: the schema pass of            *)
(* unpivot.func, the package descriptor it yields, and the row streams it  *)
(* yields afterwards (pass-through or unpivot_rows).                       *)
(*                                                                         *)
(* Strings are sequences of one-character strings, so that regular         *)
(* expression matching and substitution are computed character by          *)
(* character.  A Python value is a record [str, v]: str tells whether it   *)
(* is an instance of str, v is its text.  A dict is a function from keys   *)
(* (strings) to values.                                                    *)
(***************************************************************************)
EXTENDS Integers, Sequences, FiniteSets, TLC

----------------------------------------------------------------------------
(* Bounds of the model *)

\* largest number of resources in a package
MaxTables == 2

\* largest number of rows read from one resource
MaxRows == 2

----------------------------------------------------------------------------
(* Python values *)

Str(s) == [str |-> TRUE, v |-> s]

NonStr(s) == [str |-> FALSE, v |-> s]

None == NonStr(<<"None">>)

EmptyDict == [x \in {} |-> None]

\* d[k] = v on a dict
Put(d, k, v) == [x \in (DOMAIN d) \cup {k} |-> IF x = k THEN v ELSE d[x]]

\* dict.get(k): the value, or None when the key is absent
Get(d, k) == IF k \in DOMAIN d THEN d[k] ELSE None

Digits == {"0", "1", "2", "3", "4", "5", "6", "7", "8", "9"}

----------------------------------------------------------------------------
(* Regular expressions (module re), for the subset of patterns used here:  *)
(* a pattern is a sequence of atoms, each a literal character, \d, (\d)    *)
(* or the greedy (\d+).  A pattern that does not compile, such as "q_(",   *)
(* has valid=FALSE.                                                        *)

Lit(c) == [k |-> "lit", c |-> c]

Digit == [k |-> "digit", c |-> ""]

CapDigit == [k |-> "capdigit", c |-> ""]

CapDigits == [k |-> "capdigits", c |-> ""]

Pattern(atoms) == [valid |-> TRUE, atoms |-> atoms]

InvalidPattern == [valid |-> FALSE, atoms |-> <<>>]

\* number of capture groups of a pattern
RECURSIVE GroupCount(_, _)
GroupCount(atoms, k) ==
    IF k > Len(atoms) THEN 0
    ELSE (IF atoms[k].k \in {"capdigit", "capdigits"} THEN 1 ELSE 0)
         + GroupCount(atoms, k + 1)

\* length of the longest run of digits of s starting at position i
RECURSIVE DigitRun(_, _)
DigitRun(s, i) ==
    IF i <= Len(s) /\ s[i] \in Digits THEN 1 + DigitRun(s, i + 1) ELSE 0

\* The backtracking matcher: the matches of atoms[k..] against s starting
\* at position i, having captured groups g, in the order re tries them.
\* Each match is [e |-> first position after the match, g |-> groups].
RECURSIVE MatchFrom(_, _, _, _, _)
RECURSIVE GreedyFrom(_, _, _, _, _, _)
MatchFrom(atoms, k, s, i, g) ==
    IF k > Len(atoms) THEN << [e |-> i, g |-> g] >>
    ELSE CASE atoms[k].k = "lit" ->
                IF i <= Len(s) /\ s[i] = atoms[k].c
                THEN MatchFrom(atoms, k + 1, s, i + 1, g) ELSE <<>>
           [] atoms[k].k = "digit" ->
                IF i <= Len(s) /\ s[i] \in Digits
                THEN MatchFrom(atoms, k + 1, s, i + 1, g) ELSE <<>>
           [] atoms[k].k = "capdigit" ->
                IF i <= Len(s) /\ s[i] \in Digits
                THEN MatchFrom(atoms, k + 1, s, i + 1, Append(g, <<s[i]>>))
                ELSE <<>>
           [] atoms[k].k = "capdigits" ->
                GreedyFrom(atoms, k, s, i, g, DigitRun(s, i))

\* (\d+) taking n digits, then n-1, ... down to one
GreedyFrom(atoms, k, s, i, g, n) ==
    IF n < 1 THEN <<>>
    ELSE MatchFrom(atoms, k + 1, s, i + n,
                   Append(g, SubSeq(s, i, i + n - 1)))
         \o GreedyFrom(atoms, k, s, i, g, n - 1)

\* field_name_re.fullmatch(name) is not None
fullmatch(p, s) ==
    LET ms == MatchFrom(p.atoms, 1, s, 1, <<>>)
    IN  \E j \in 1..Len(ms) : ms[j].e = Len(s) + 1

\* The replacement template of re.sub: a backslash followed by a digit is
\* a reference to that group, every other character stands for itself (the
\* templates of the model refer only to groups their pattern has).
GroupOf(c) == CASE c = "1" -> 1 [] c = "2" -> 2 [] c = "3" -> 3
                [] c = "4" -> 4 [] c = "5" -> 5 [] c = "6" -> 6
                [] c = "7" -> 7 [] c = "8" -> 8 [] c = "9" -> 9
                [] OTHER -> 0

\* a template expansion that knows no group reference
ExpandNoRef(tpl, j, g) == tpl

RECURSIVE Expand(_, _, _)
Expand(tpl, j, g) ==
    IF j > Len(tpl) THEN <<>>
    ELSE IF tpl[j] = "\\" /\ j < Len(tpl) /\ GroupOf(tpl[j + 1]) \in 1..Len(g)
         THEN g[GroupOf(tpl[j + 1])] \o Expand(tpl, j + 2, g)
         ELSE <<tpl[j]>> \o Expand(tpl, j + 1, g)

\* re.sub(pattern, repl, string) from position i on: every leftmost
\* non-overlapping match is replaced by the expanded template
RECURSIVE SubFrom(_, _, _, _)
SubFrom(p, tpl, s, i) ==
    LET ms   == MatchFrom(p.atoms, 1, s, i, <<>>)
        rest == IF i <= Len(s) THEN <<s[i]>> \o SubFrom(p, tpl, s, i + 1)
                ELSE <<>>
    IN  IF i > Len(s) + 1 THEN <<>>
        ELSE IF ms = <<>> THEN rest
        ELSE IF ms[1].e = i THEN Expand(tpl, 1, ms[1].g) \o rest
        ELSE Expand(tpl, 1, ms[1].g) \o SubFrom(p, tpl, s, ms[1].e)

sub(p, tpl, s) == SubFrom(p, tpl, s, 1)

----------------------------------------------------------------------------
(* Descriptors *)

\* a field descriptor {name, type, ...}; hasKeys tells whether the dict has
\* a 'keys' entry, which the schema pass adds to the fields it pivots
Field(name, type) ==
    [name |-> name, type |-> type, hasKeys |-> FALSE, keys |-> EmptyDict]

\* a resource descriptor; hasSchema: it has a 'schema' entry; hasFields: the
\* schema has a 'fields' entry
Resource(name, hasSchema, hasFields, fields) ==
    [name |-> name, hasSchema |-> hasSchema, hasFields |-> hasFields,
     fields |-> fields]

\* the elements of seq whose flag is set, from index n on, in order
RECURSIVE Filter(_, _, _)
Filter(seq, flags, n) ==
    IF n > Len(seq) THEN <<>>
    ELSE (IF flags[n] THEN <<seq[n]>> ELSE <<>>) \o Filter(seq, flags, n + 1)

Names(fields) == [n \in 1..Len(fields) |-> fields[n].name]

Range(seq) == {seq[n] : n \in 1..Len(seq)}

----------------------------------------------------------------------------
(* The packages and configurations the model runs the processor on *)

region == <<"r">>

q_1 == <<"q", "_", "1">>

q_2 == <<"q", "_", "2">>

q_3 == <<"q", "_", "3">>

note == <<"x">>

quarter == <<"k">>

half == <<"h">>

amount == <<"a">>

\* a resource and the rows its stream delivers, repeated as often as needed;
\* the resources of a package are distinct
Tables ==
    { [res  |-> Resource("sales", TRUE, TRUE,
                         << Field(region, "string"), Field(q_1, "number"),
                            Field(q_2, "number") >>),
       pool |-> << (region :> Str(<<"e">>)) @@ (q_1 :> NonStr(<<"1", "0">>)),
                   (region :> Str(<<"w">>)) @@ (q_1 :> NonStr(<<"3", "0">>))
                     @@ (q_2 :> NonStr(<<"2", "0">>)) >>],
      [res  |-> Resource("costs", TRUE, TRUE,
                         << Field(region, "string"),
                            [Field(q_3, "number") EXCEPT
                               !.hasKeys = TRUE,
                               !.keys = (note :> Str(<<"o">>))] >>),
       pool |-> << (region :> Str(<<"n">>)) @@ (q_3 :> NonStr(<<"5">>)) >>],
      [res  |-> Resource("notes", FALSE, FALSE, <<>>),
       pool |-> << (region :> Str(<<"s">>)) @@ (note :> Str(<<"h", "i">>)) >>],
      [res  |-> Resource("misc", TRUE, FALSE, <<>>),
       pool |-> << (note :> Str(<<"y", "o">>)) >>] }

\* the first n rows a resource delivers
Rows(pool, n) == [j \in 1..n |-> pool[((j - 1) % Len(pool)) + 1]]

\* q_(\d)
QDigit == Pattern(<< Lit("q"), Lit("_"), CapDigit >>)

\* q_(\d+)
QDigits == Pattern(<< Lit("q"), Lit("_"), CapDigits >>)

\* q_1
QOne == Pattern(<< Lit("q"), Lit("_"), Lit("1") >>)

\* the templates "\1" and "$1"
BackslashOne == <<"\\", "1">>

DollarOne == <<"$", "1">>

\* the unpivot_fields configurations
UnpivotFields ==
    { <<>>,
      << [name |-> QDigits, keys |-> (quarter :> Str(BackslashOne))] >>,
      << [name |-> QDigits, keys |-> (quarter :> Str(DollarOne))] >>,
      << [name |-> QOne, keys |-> (quarter :> NonStr(<<"7">>))],
         [name |-> QDigit, keys |-> (quarter :> Str(<<"Q", "\\", "1">>))] >>,
      << [name |-> QOne, keys |-> (quarter :> NonStr(<<"7">>))],
         [name |-> QDigit, keys |-> (half :> Str(BackslashOne))] >>,
      << [name |-> QDigits, keys |-> EmptyDict] >>,
      << [name |-> QOne, keys |-> (quarter :> NonStr(<<"7">>))],
         [name |-> InvalidPattern, keys |-> (quarter :> Str(BackslashOne))] >> }

ExtraKeys == { <<>>, << Field(quarter, "string") >> }

ExtraValues == { Field(amount, "number") }

\* the resources argument, as the set of resource names it selects
Selections == { {"sales", "costs", "notes", "misc"}, {"sales"}, {"notes"} }

----------------------------------------------------------------------------
(* State *)

VARIABLES
    pkg,             \* package.pkg.descriptor['resources']
    source,          \* the rows each resource of the package delivers
    unpivot_fields,  \* the arguments of unpivot
    extra_keys,
    extra_value,
    resources,
    unpivot_fields_without_regex,
    fields_to_keep,  \* [bound, names]: unbound until first assigned
    pc,              \* "schema", "rows", "pass", "expand", "done", "error"
    ri,              \* the resource the loop at pc is at
    piv,             \* unpivot_rows: the pivot field last yielded for the row
    read,            \* per resource, the number of rows read from its stream
    out,             \* per resource, the rows handed to the consumer
    emitted,         \* package.pkg has been yielded
    yielded,         \* the streams yielded so far
    err,             \* the exception raised, or "none"
    rewrites,        \* per resource, the number of assignments to its fields
    pkg0,            \* the descriptor before the run
    failing,         \* the resource whose stream raises at its end, or 0
    resolved,        \* per resource, what the schema pass recorded for it
    pulls            \* per resource, the rows asked of its unpivot_rows

args == << unpivot_fields, extra_keys, extra_value, resources >>

vars == << pkg, source, unpivot_fields, extra_keys, extra_value, resources,
           unpivot_fields_without_regex, fields_to_keep, pc, ri, piv, read,
           out, emitted, yielded, err, rewrites, pkg0, failing, resolved,
           pulls >>

Init ==
    \E n \in 1..MaxTables, nr \in 0..MaxRows :
      \E ts \in [1..n -> Tables] :
        /\ \A i, j \in 1..n : ts[i] = ts[j] => i = j
        /\ pkg = [i \in 1..n |-> ts[i].res]
        /\ pkg0 = pkg
        /\ source = [i \in 1..n |-> Rows(ts[i].pool, nr)]
        /\ unpivot_fields \in UnpivotFields
        /\ extra_keys \in ExtraKeys
        /\ extra_value \in ExtraValues
        /\ resources \in Selections
        /\ unpivot_fields_without_regex = <<>>
        /\ fields_to_keep = [bound |-> FALSE, names |-> <<>>]
        /\ pc = "schema"
        /\ ri = 1
        /\ piv = 0
        /\ read = [i \in 1..n |-> 0]
        /\ out = [i \in 1..n |-> <<>>]
        /\ emitted = FALSE
        /\ yielded = <<>>
        /\ err = "none"
        /\ rewrites = [i \in 1..n |-> 0]
        /\ failing \in 0..n
        /\ resolved = [i \in 1..n |->
                         [done |-> FALSE, pivots |-> <<>>, kept |-> <<>>]]
        /\ pulls = [i \in 1..n |-> 0]

----------------------------------------------------------------------------
(* The schema pass *)

\* matcher.match(name)
match(name) == name \in resources

\* match_fields(field_name_re, expected)(field)
match_fields(field_name_re, expected, field) ==
    fullmatch(field_name_re, field.name) = expected

\* the resolved keys, were they added to the 'keys' the descriptor has
new_key_values_merged(u_field, field_to_pivot) ==
    [key \in (DOMAIN u_field.keys) \cup (DOMAIN field_to_pivot.keys) |->
        IF key \notin DOMAIN u_field.keys THEN field_to_pivot.keys[key]
        ELSE IF u_field.keys[key].str
        THEN Str(sub(u_field.name, u_field.keys[key].v, field_to_pivot.name))
        ELSE u_field.keys[key]]

\* the resolved keys of a pivoted field: string values are templates
\* substituted by re.sub over the field name, other values are kept
new_key_values(u_field, field_to_pivot) ==
    [key \in DOMAIN u_field.keys |->
        IF u_field.keys[key].str
        THEN Str(sub(u_field.name, u_field.keys[key].v, field_to_pivot.name))
        ELSE u_field.keys[key]]

\* field_to_pivot['keys'] = new_key_values, assigned inside the loop over
\* the keys of the spec, so not at all when the spec has no key
with_keys(u_field, field_to_pivot) ==
    IF DOMAIN u_field.keys = {} THEN field_to_pivot
    ELSE [field_to_pivot EXCEPT
            !.hasKeys = TRUE,
            !.keys = new_key_values(u_field, field_to_pivot)]

\* re.compile, were a pattern that does not compile let through
compiles_always(p) == TRUE

\* re.compile(u_field['name']) returns a pattern and raises no re.error
compiles(p) == p.valid

\* The loop over unpivot_fields for one resource, from spec j on.  st.live
\* is the field list of the schema with the descriptors the loop has
\* changed in place, st.rem flags the fields still in the working list
\* 'fields', st.pivots are the fields appended to
\* unpivot_fields_without_regex, st.err the exception raised.
RECURSIVE spec_loop(_, _, _)
spec_loop(u_fields, j, st) ==
    IF j > Len(u_fields) THEN st
    ELSE IF ~compiles(u_fields[j].name) THEN [st EXCEPT !.err = "re.error"]
    ELSE
      LET u_field == u_fields[j]
          idx     == 1..Len(st.live)
          hit     == [n \in idx |->
                        st.rem[n] /\ match_fields(u_field.name, TRUE, st.live[n])]
          rem     == [n \in idx |->
                        st.rem[n] /\ match_fields(u_field.name, FALSE, st.live[n])]
          live    == [n \in idx |->
                        IF hit[n] THEN with_keys(u_field, st.live[n])
                        ELSE st.live[n]]
      IN  spec_loop(u_fields, j + 1,
                    [rem    |-> rem,
                     live   |-> live,
                     pivots |-> st.pivots \o Filter(live, hit, 1),
                     err    |-> st.err])

\* the field list a resolved schema gets
rebuilt_swapped(fields, e_keys, e_value) == fields \o <<e_value>> \o e_keys

rebuilt(fields, e_keys, e_value) == fields \o e_keys \o <<e_value>>

\* the loop over n resources is over at index i, were it to stop one early
loop_over_early(i, n) == i >= n

\* the loop over n resources, now at index i, is over
loop_over(i, n) == i > n

\* the schema pass skips the resource, were the matcher not asked
skipped_unmatched_too(matched, has_schema) == ~has_schema

\* the schema pass skips a resource that is not matched or has no schema
skipped(matched, has_schema) == ~(matched /\ has_schema)

\* One iteration of the loop over the resources of the descriptor.
resolve_resource ==
    /\ pc = "schema"
    /\ ~loop_over(ri, Len(pkg))
    /\ LET resource == pkg[ri]
           fields0  == IF resource.hasFields THEN resource.fields ELSE <<>>
           st       == spec_loop(unpivot_fields, 1,
                                 [rem    |-> [n \in 1..Len(fields0) |-> TRUE],
                                  live   |-> fields0,
                                  pivots |-> <<>>,
                                  err    |-> "none"])
           fields   == Filter(st.live, st.rem, 1)
       IN  IF skipped(match(resource.name), resource.hasSchema)
           THEN /\ ri' = ri + 1
                /\ UNCHANGED << pkg, unpivot_fields_without_regex,
                                fields_to_keep, pc, err, rewrites, resolved >>
           ELSE IF st.err # "none"
           THEN /\ pc' = "error"
                /\ err' = st.err
                /\ pkg' = [pkg EXCEPT ![ri].fields = st.live]
                /\ unpivot_fields_without_regex' =
                       unpivot_fields_without_regex \o st.pivots
                /\ UNCHANGED << ri, fields_to_keep, rewrites, resolved >>
           ELSE /\ resolved' = [resolved EXCEPT ![ri] =
                                  [done   |-> TRUE,
                                   pivots |-> st.pivots,
                                   kept   |-> Names(fields)]]
                /\ unpivot_fields_without_regex' =
                       unpivot_fields_without_regex \o st.pivots
                /\ fields_to_keep' = [bound |-> TRUE, names |-> Names(fields)]
                /\ pkg' = [pkg EXCEPT
                             ![ri].hasFields = TRUE,
                             ![ri].fields = rebuilt(fields, extra_keys,
                                                    extra_value)]
                /\ rewrites' = [rewrites EXCEPT ![ri] = @ + 1]
                /\ ri' = ri + 1
                /\ UNCHANGED << pc, err >>
    /\ UNCHANGED << args, source, piv, read, out, emitted, yielded, pkg0,
                    failing, pulls >>

\* yield package.pkg
emit_package ==
    /\ pc = "schema"
    /\ loop_over(ri, Len(pkg))
    /\ emitted' = TRUE
    /\ pc' = "rows"
    /\ ri' = 1
    /\ UNCHANGED << args, pkg, source, unpivot_fields_without_regex,
                    fields_to_keep, piv, read, out, yielded, err, rewrites,
                    pkg0, failing, resolved, pulls >>

----------------------------------------------------------------------------
(* The row streams *)

\* the stream kind the unmatched branch yields, were it the other one
stream_kind_swapped(matched) == IF matched THEN "pass" ELSE "expand"

\* the row loop yields the resource itself, or unpivot_rows over it
stream_kind(matched) == IF matched THEN "expand" ELSE "pass"

\* One iteration of the loop over the resources of the package: the stream
\* for resource ri is yielded.  Calling unpivot_rows reads fields_to_keep.
yield_resource ==
    /\ pc = "rows"
    /\ ri <= Len(pkg)
    /\ LET kind == stream_kind(match(pkg[ri].name))
       IN  IF kind = "expand" /\ ~fields_to_keep.bound
           THEN /\ pc' = "error"
                /\ err' = "UnboundLocalError"
                /\ UNCHANGED << yielded, piv >>
           ELSE /\ pc' = kind
                /\ piv' = 0
                /\ yielded' = Append(yielded, [t |-> ri, kind |-> kind])
                /\ UNCHANGED err
    /\ UNCHANGED << args, pkg, source, unpivot_fields_without_regex,
                    fields_to_keep, ri, read, out, emitted, rewrites, pkg0,
                    failing, resolved, pulls >>

\* the loop over the resources of the package ends
finish ==
    /\ pc = "rows"
    /\ ri > Len(pkg)
    /\ pc' = "done"
    /\ UNCHANGED << args, pkg, source, unpivot_fields_without_regex,
                    fields_to_keep, ri, piv, read, out, emitted, yielded, err,
                    rewrites, pkg0, failing, resolved, pulls >>

\* what the end of the rows gives, were a failure of the source caught
at_end_swallowed(fails) == "stop"

\* what the loop over the rows meets when the source has no row left: the
\* end of the stream, or the exception the source raises, which nothing
\* catches
at_end(fails) == IF fails THEN "raise" ELSE "stop"

\* The consumer asks the passed-through resource for its next row.
pass_through ==
    /\ pc = "pass"
    /\ IF read[ri] < Len(source[ri])
       THEN /\ read' = [read EXCEPT ![ri] = @ + 1]
            /\ out' = [out EXCEPT ![ri] =
                         Append(@, [row |-> source[ri][read[ri] + 1],
                                    src |-> read[ri] + 1,
                                    p   |-> 0])]
            /\ UNCHANGED << pc, ri, err >>
       ELSE IF failing = ri
       THEN /\ pc' = "error"
            /\ err' = "SourceError"
            /\ UNCHANGED << read, out, ri >>
       ELSE /\ pc' = "rows"
            /\ ri' = ri + 1
            /\ UNCHANGED << read, out, err >>
    /\ UNCHANGED << args, pkg, source, unpivot_fields_without_regex,
                    fields_to_keep, piv, emitted, yielded, rewrites,
                    pkg0, failing, resolved, pulls >>

\* new_row[field] = row[field] for the fields to keep, from the n-th on
RECURSIVE copy_kept(_, _, _, _)
copy_kept(new_row, row, kept, n) ==
    IF n > Len(kept) THEN new_row
    ELSE copy_kept(Put(new_row, kept[n], row[kept[n]]), row, kept, n + 1)

\* row.get(unpivot_field['name'])
picked(row, name) == Get(row, name)

\* the row unpivot_rows builds for one row and one pivot field
new_row(row, unpivot_field, kept, e_value) ==
    Put(copy_kept(unpivot_field.keys, row, kept, 1),
        e_value.name, picked(row, unpivot_field.name))

\* building the row raises KeyError, were the picked value indexed too
raises_strict(row, unpivot_field, kept) ==
    ~(/\ unpivot_field.hasKeys
      /\ Range(kept) \subseteq DOMAIN row
      /\ unpivot_field.name \in DOMAIN row)

\* building the row raises KeyError: the pivot field has no 'keys', or the
\* row lacks a field to keep
raises(row, unpivot_field, kept) ==
    ~(unpivot_field.hasKeys /\ Range(kept) \subseteq DOMAIN row)

\* the p-th pivot field, were the list gone through from its end
pivot_at_reversed(fields_to_unpivot, p) ==
    fields_to_unpivot[Len(fields_to_unpivot) + 1 - p]

\* the p-th pivot field the loop over fields_to_unpivot visits
pivot_at(fields_to_unpivot, p) == fields_to_unpivot[p]

\* the row the generator is at after the pull, were it to fetch the next
\* row as soon as there is one
row_to_read_ahead(same_row, n_read, n_rows) ==
    IF same_row /\ n_read >= n_rows THEN n_read ELSE n_read + 1

\* the row the generator is at after the pull: the one it was at while
\* that row has pivot fields left, else the next one
row_to_read(same_row, n_read, n_rows) ==
    IF same_row THEN n_read ELSE n_read + 1

\* The consumer asks unpivot_rows for its next row: the generator goes on
\* with the next pivot field of its row, or reads rows until one gives a
\* pivot field, and ends when the stream is exhausted.
unpivot_rows ==
    /\ pc = "expand"
    /\ pulls' = [pulls EXCEPT ![ri] = @ + 1]
    /\ LET rows      == source[ri]
           n_pivots  == Len(unpivot_fields_without_regex)
           same_row  == piv >= 1 /\ piv < n_pivots
           has_next  == n_pivots > 0 /\ read[ri] < Len(rows)
           r         == row_to_read(same_row, read[ri], Len(rows))
           p         == IF same_row THEN piv + 1 ELSE 1
       IN  IF same_row \/ has_next
           THEN /\ read' = [read EXCEPT ![ri] = r]
                /\ IF raises(rows[r], pivot_at(unpivot_fields_without_regex, p),
                             fields_to_keep.names)
                   THEN /\ pc' = "error"
                        /\ err' = "KeyError"
                        /\ UNCHANGED << out, piv, ri >>
                   ELSE /\ out' = [out EXCEPT ![ri] =
                                Append(@, [row |-> new_row(rows[r],
                                             pivot_at(
                                               unpivot_fields_without_regex, p),
                                             fields_to_keep.names,
                                             extra_value),
                                           src |-> r,
                                           p   |-> p])]
                        /\ piv' = p
                        /\ UNCHANGED << pc, err, ri >>
           ELSE IF at_end(failing = ri) = "raise"
           THEN /\ read' = [read EXCEPT ![ri] = Len(rows)]
                /\ pc' = "error"
                /\ err' = "SourceError"
                /\ UNCHANGED << out, piv, ri >>
           ELSE /\ read' = [read EXCEPT ![ri] = Len(rows)]
                /\ pc' = "rows"
                /\ ri' = ri + 1
                /\ UNCHANGED << out, piv, err >>
    /\ UNCHANGED << args, pkg, source, unpivot_fields_without_regex,
                    fields_to_keep, emitted, yielded, rewrites, pkg0, failing,
                    resolved >>

Next ==
    \/ resolve_resource
    \/ emit_package
    \/ yield_resource
    \/ finish
    \/ pass_through
    \/ unpivot_rows

Spec == Init /\ [][Next]_vars

----------------------------------------------------------------------------
(* What the properties speak of, stated from the descriptor before the run *)

Tbl == 1..Len(pkg0)

\* the resource selector matches table t
Selected(t) == pkg0[t].name \in resources

\* table t is matched and has a schema
Transformed(t) == Selected(t) /\ pkg0[t].hasSchema

\* the original field list of table t
OwnFields(t) == IF pkg0[t].hasFields THEN pkg0[t].fields ELSE <<>>

\* the first spec, in declaration order, whose pattern fully matches the
\* name, or 0 when none does
FirstSpec(name) ==
    LET js == {j \in 1..Len(unpivot_fields) :
                 fullmatch(unpivot_fields[j].name, name)}
    IN  IF js = {} THEN 0 ELSE CHOOSE j \in js : \A i \in js : j <= i

IsKept(f) == FirstSpec(f.name) = 0

\* the fields of table t matched by no spec, and their names
OwnKept(t) == SelectSeq(OwnFields(t), IsKept)

OwnKeptNames(t) == {OwnFields(t)[n].name : n \in {m \in 1..Len(OwnFields(t)) :
                                                   IsKept(OwnFields(t)[m])}}

\* the names of the fields of table t that some spec matches
OwnPivotNames(t) == {OwnFields(t)[n].name : n \in {m \in 1..Len(OwnFields(t)) :
                                                    ~IsKept(OwnFields(t)[m])}}

\* the number of fields of table t resolved as pivot fields
OwnPivotCount(t) ==
    Cardinality({n \in 1..Len(OwnFields(t)) : ~IsKept(OwnFields(t)[n])})

\* the text group 1 of the pattern captures when it matches the whole name
Captured(p, name) ==
    LET ms == MatchFrom(p.atoms, 1, name, 1, <<>>)
        j  == CHOOSE j \in 1..Len(ms) : ms[j].e = Len(name) + 1
    IN  ms[j].g[1]

\* the keys the matching spec resolves for a field of that name
ResolvedKeys(name) == new_key_values(unpivot_fields[FirstSpec(name)],
                                     [name |-> name])

\* the stream of table t has been handed out and consumed to its end
Consumed(t) == emitted /\ (ri > t \/ pc = "done")

\* the rows the consumer got for table t
OutRows(t) == [n \in 1..Len(out[t]) |-> out[t][n].row]

\* the processor has failed at the stream of table t (not the source)
FailedAt(t) == pc = "error" /\ emitted /\ ri = t /\ err # "SourceError"

----------------------------------------------------------------------------
(* C1.  Row count law: once its stream is consumed, a matched table with a *)
(* schema has emitted (input rows) x (pivot fields resolved from its own   *)
(* schema) rows, and an unmatched table as many rows as it received.       *)
C1_RowCountLaw ==
    \A t \in Tbl :
        Consumed(t) =>
            /\ Transformed(t) =>
                   Len(out[t]) = Len(source[t]) * OwnPivotCount(t)
            /\ ~Selected(t) => Len(out[t]) = Len(source[t])

(* C2.  Row content per table: for a matched table T with a schema, every  *)
(* input row R and every pivot field P of T's own schema, the output row   *)
(* generated for (R, P) maps P's key names to P's resolved key values, T's *)
(* own kept field names to R's values, and the extra value name to R's     *)
(* value for P's name.                                                     *)
C2_RowContentPerTable ==
    \A t \in Tbl :
        (Transformed(t) /\ Consumed(t)) =>
            \A r \in 1..Len(source[t]) : \A name \in OwnPivotNames(t) :
                \E n \in 1..Len(out[t]) :
                    LET o == out[t][n].row
                        R == source[t][r]
                        K == ResolvedKeys(name)
                    IN  /\ out[t][n].src = r
                        /\ \A key \in DOMAIN K :
                               key \in DOMAIN o /\ o[key] = K[key]
                        /\ \A f \in OwnKeptNames(t) :
                               f \in DOMAIN o /\ f \in DOMAIN R /\ o[f] = R[f]
                        /\ extra_value.name \in DOMAIN o
                        /\ o[extra_value.name] = Get(R, name)

(* C3.  Field completeness: the key set of every row emitted for a matched *)
(* table with a schema is that table's fieldsToKeep united with the names  *)
(* of extraKeys and the name of extraValue.                                *)
C3_FieldCompleteness ==
    \A t \in Tbl :
        Transformed(t) =>
            \A n \in 1..Len(out[t]) :
                DOMAIN out[t][n].row =
                    OwnKeptNames(t) \cup Range(Names(extra_keys))
                                    \cup {extra_value.name}

(* C4.  A matched table without a schema is a no-op: its descriptor is     *)
(* unchanged, its rows are passed through unchanged, in order and in the   *)
(* same number, and no error is raised at it.                              *)
C4_SchemaAbsenceNoOp ==
    \A t \in Tbl :
        (Selected(t) /\ ~pkg0[t].hasSchema) =>
            /\ pkg[t] = pkg0[t]
            /\ ~FailedAt(t)
            /\ Len(out[t]) <= Len(source[t])
            /\ OutRows(t) = SubSeq(source[t], 1, Len(out[t]))
            /\ Consumed(t) => Len(out[t]) = Len(source[t])

(* C5.  Pass-through law: a table the selector does not match keeps its    *)
(* schema and yields its original rows unchanged and in original order,    *)
(* whatever the configuration and the other tables are.                    *)
C5_PassThroughLaw ==
    \A t \in Tbl :
        ~Selected(t) =>
            /\ pkg[t] = pkg0[t]
            /\ ~FailedAt(t)
            /\ Len(out[t]) = read[t]
            /\ Len(out[t]) <= Len(source[t])
            /\ OutRows(t) = SubSeq(source[t], 1, Len(out[t]))
            /\ Consumed(t) => Len(out[t]) = Len(source[t])

\* an unmatched table has been consumed to its end, with rows, in a package
\* that also holds a transformed table with pivot fields
C5_Witness ==
    \E t \in Tbl, u \in Tbl :
        /\ ~Selected(t) /\ Consumed(t) /\ Len(out[t]) >= 2
        /\ Transformed(u) /\ OwnPivotCount(u) >= 1

\* the pivot fields the schema pass has recorded
Recorded == Range(unpivot_fields_without_regex)

\* the n-th output row of table t comes from unpivot_rows
Expanded(t, n) == out[t][n].p >= 1

(* C6.  Ordering law: the rows generated from one input row appear         *)
(* consecutively, in the order of the resolved pivot fields list, before   *)
(* any row of the next input row; input rows are expanded in stream order; *)
(* the k-th stream yielded belongs to the k-th table of the package.       *)
C6_OrderingLaw ==
    /\ \A k \in 1..Len(yielded) : yielded[k].t = k
    /\ \A t \in Tbl : \A n \in 1..Len(out[t]) :
          LET o == out[t][n]
              N == Len(unpivot_fields_without_regex)
          IN  IF Expanded(t, n)
              THEN LET P == unpivot_fields_without_regex[((n - 1) % N) + 1]
                       R == source[t][((n - 1) \div N) + 1]
                   IN  /\ o.src = ((n - 1) \div N) + 1
                       /\ o.p = ((n - 1) % N) + 1
                       /\ o.row[extra_value.name] = Get(R, P.name)
                       /\ \A key \in DOMAIN P.keys : o.row[key] = P.keys[key]
              ELSE o.src = n /\ o.row = source[t][n]

\* two input rows of the second table have been expanded over at least two
\* pivot fields with different keys, to the end of the stream
C6_Witness ==
    \E t \in Tbl :
        /\ t >= 2 /\ Consumed(t) /\ Len(source[t]) >= 2
        /\ Len(unpivot_fields_without_regex) >= 2
        /\ unpivot_fields_without_regex[1].keys
               # unpivot_fields_without_regex[2].keys
        /\ Len(out[t]) = Len(source[t]) * Len(unpivot_fields_without_regex)
        /\ Expanded(t, 1)

\* a row has been read from a source or handed to the consumer
RowsStarted == \E t \in Tbl : read[t] > 0 \/ Len(out[t]) > 0

(* C7.  Schema before rows: the schema of every matched table with a       *)
(* schema has been rewritten, and the package descriptor emitted, before   *)
(* the first row of any table is read or produced, and before any stream   *)
(* is yielded; each schema is rewritten exactly once.                      *)
C7_SchemaBeforeRows ==
    /\ \A t \in Tbl : rewrites[t] <= 1
    /\ (RowsStarted \/ yielded # <<>>) => emitted
    /\ emitted =>
          \A t \in Tbl :
              /\ Transformed(t) =>
                     /\ rewrites[t] = 1
                     /\ pkg[t].hasFields
                     /\ pkg[t].fields[Len(pkg[t].fields)] = extra_value
              /\ ~Transformed(t) => rewrites[t] = 0

\* rows have been produced in a package with two transformed tables
C7_Witness ==
    /\ RowsStarted
    /\ \E t, u \in Tbl : t # u /\ Transformed(t) /\ Transformed(u)

\* the schema pass is done with table t
Resolved(t) == emitted \/ (pc \in {"schema", "error"} /\ ri > t)

(* C8.  Schema rebuild: after schema resolution the field list of a        *)
(* matched table with a schema is the original descriptors of its kept     *)
(* fields, in their original order, then the extra keys in configuration   *)
(* order, then the extra value; no pivoted field remains in it.            *)
C8_SchemaRebuild ==
    \A t \in Tbl :
        (Transformed(t) /\ Resolved(t)) =>
            /\ pkg[t].fields = OwnKept(t) \o extra_keys \o <<extra_value>>
            /\ \A n \in 1..(Len(pkg[t].fields) - Len(extra_keys) - 1) :
                   FirstSpec(pkg[t].fields[n].name) = 0

\* a table with kept and pivoted fields has been resolved, with extra keys
C8_Witness ==
    \E t \in Tbl :
        /\ Transformed(t) /\ Resolved(t)
        /\ OwnPivotCount(t) >= 1
        /\ Len(OwnKept(t)) >= 1
        /\ extra_keys # <<>>

(* C9, as claimed.  Regex template law with the template "$1": a field     *)
(* whose name the pattern fully matches is resolved with that key set to   *)
(* the text group 1 captures; non-string key values pass unchanged.        *)
C9_DollarTemplate ==
    \A pf \in Recorded :
        LET u == unpivot_fields[FirstSpec(pf.name)]
        IN  \A key \in DOMAIN u.keys :
                /\ (u.keys[key] = Str(DollarOne)
                      /\ GroupCount(u.name.atoms, 1) >= 1) =>
                       /\ pf.hasKeys
                       /\ pf.keys[key] = Str(Captured(u.name, pf.name))
                /\ ~u.keys[key].str =>
                       pf.hasKeys /\ pf.keys[key] = u.keys[key]

(* C9, amended.  Regex template law with the template "\1": a field whose  *)
(* name the pattern fully matches is resolved with that key set to the     *)
(* text group 1 captures, so q_1 under q_(\d+) and {quarter: "\1"} gets    *)
(* {quarter: "1"}; the template "$1" holds no group reference and resolves *)
(* to the string "$1"; non-string key values pass unchanged.               *)
C9_BackslashTemplate ==
    \A pf \in Recorded :
        LET u == unpivot_fields[FirstSpec(pf.name)]
        IN  /\ \A key \in DOMAIN u.keys :
                  /\ (u.keys[key] = Str(BackslashOne)
                        /\ GroupCount(u.name.atoms, 1) >= 1) =>
                         /\ pf.hasKeys
                         /\ pf.keys[key] = Str(Captured(u.name, pf.name))
                  /\ u.keys[key] = Str(DollarOne) =>
                         pf.hasKeys /\ pf.keys[key] = Str(DollarOne)
                  /\ ~u.keys[key].str =>
                         pf.hasKeys /\ pf.keys[key] = u.keys[key]
            /\ (/\ pf.name = q_1
                /\ u.name = QDigits
                /\ u.keys = (quarter :> Str(BackslashOne))) =>
                   pf.keys = (quarter :> Str(<<"1">>))

\* q_1 has been resolved by q_(\d+) with {quarter: "\1"}
C9_Witness ==
    \E pf \in Recorded :
        /\ pf.name = q_1
        /\ unpivot_fields[FirstSpec(pf.name)].name = QDigits
        /\ unpivot_fields[FirstSpec(pf.name)].keys
               = (quarter :> Str(BackslashOne))
        /\ pf.keys = (quarter :> Str(<<"1">>))

\* the pivot field unpivot_rows is at, or was at when it failed
CurrentPivot ==
    unpivot_fields_without_regex[
        IF piv >= 1 /\ piv < Len(unpivot_fields_without_regex)
        THEN piv + 1 ELSE 1]

(* C10.  Missing pivoted value: when an input row has no entry for a pivot *)
(* field's name, the row for that pivot field is still emitted, with the   *)
(* extra value field present and holding None; the lookup raises no error, *)
(* and all pivot fields and rows of the stream are expanded.               *)
C10_MissingPivotedValue ==
    /\ \A t \in Tbl : \A n \in 1..Len(out[t]) :
          Expanded(t, n) =>
              LET o == out[t][n]
                  R == source[t][o.src]
                  P == unpivot_fields_without_regex[o.p]
              IN  P.name \notin DOMAIN R =>
                      /\ extra_value.name \in DOMAIN o.row
                      /\ o.row[extra_value.name] = None
    /\ err = "KeyError" =>
          ~(/\ CurrentPivot.hasKeys
            /\ Range(fields_to_keep.names) \subseteq DOMAIN source[ri][read[ri]])
    /\ \A t \in Tbl :
          (Selected(t) /\ Consumed(t)) =>
              Len(out[t]) = Len(source[t]) * Len(unpivot_fields_without_regex)

\* a row lacking a pivot field of its own table has been expanded for that
\* field, and the expansion has gone on to a later row
C10_Witness ==
    \E t \in Tbl : \E n \in 1..Len(out[t]) :
        /\ Transformed(t) /\ Expanded(t, n)
        /\ unpivot_fields_without_regex[out[t][n].p].name \in OwnPivotNames(t)
        /\ unpivot_fields_without_regex[out[t][n].p].name
               \notin DOMAIN source[t][out[t][n].src]
        /\ out[t][n].row[extra_value.name] = None
        /\ n < Len(out[t])
        /\ out[t][Len(out[t])].src > out[t][n].src

----------------------------------------------------------------------------
\* the original descriptor of the field of table t with that name
OwnField(t, name) ==
    OwnFields(t)[CHOOSE n \in 1..Len(OwnFields(t)) :
                     OwnFields(t)[n].name = name]

(* C11.  Exclusive consumption: every field of the original field list of *)
(* a matched table with a schema is either recorded exactly once as a      *)
(* resolved pivot field, with the keys resolved from the first spec whose  *)
(* pattern fully matches its name, or is in fieldsToKeep, never both.      *)
C11_ExclusiveConsumption ==
    \A t \in Tbl :
        resolved[t].done =>
            LET P == resolved[t].pivots
                K == resolved[t].kept
                F == OwnFields(t)
            IN  /\ Len(P) + Len(K) = Len(F)
                /\ \A n \in 1..Len(F) :
                      LET j   == FirstSpec(F[n].name)
                          inP == {m \in 1..Len(P) : P[m].name = F[n].name}
                          inK == {m \in 1..Len(K) : K[m] = F[n].name}
                      IN  IF j = 0
                          THEN Cardinality(inK) = 1 /\ inP = {}
                          ELSE /\ Cardinality(inP) = 1
                               /\ inK = {}
                               /\ \A m \in inP :
                                     /\ P[m].hasKeys
                                     /\ P[m].keys =
                                          new_key_values(unpivot_fields[j],
                                                         F[n])

\* the key names declared by the specs that matched a field of table t
DeclaredKeyNames(t) ==
    UNION {DOMAIN unpivot_fields[FirstSpec(name)].keys :
               name \in OwnPivotNames(t)}

(* C12, as claimed.  Uniform key sets: all resolved pivot fields of a      *)
(* table have key mappings with the same key names, the union of the key   *)
(* names declared by the specs that matched a field of the table.          *)
C12_UniformKeySets ==
    \A t \in Tbl :
        resolved[t].done =>
            \A m \in 1..Len(resolved[t].pivots) :
                /\ resolved[t].pivots[m].hasKeys
                /\ DOMAIN resolved[t].pivots[m].keys = DeclaredKeyNames(t)

(* C12, amended.  The key mapping of a resolved pivot field has exactly    *)
(* the key names declared by the first spec that matched it, when that     *)
(* spec declares a key; a field matched by a spec that declares no key is  *)
(* recorded as its descriptor was, with the 'keys' entry it had or none.   *)
C12_KeyNamesOfMatchingSpec ==
    \A t \in Tbl :
        resolved[t].done =>
            \A m \in 1..Len(resolved[t].pivots) :
                LET pf == resolved[t].pivots[m]
                    u  == unpivot_fields[FirstSpec(pf.name)]
                IN  IF DOMAIN u.keys # {}
                    THEN pf.hasKeys /\ DOMAIN pf.keys = DOMAIN u.keys
                    ELSE pf = OwnField(t, pf.name)

\* two pivot fields of one table have been resolved with different key names
C12_Witness ==
    \E t \in Tbl :
        /\ resolved[t].done
        /\ \E m, n \in 1..Len(resolved[t].pivots) :
              /\ resolved[t].pivots[m].hasKeys
              /\ resolved[t].pivots[n].hasKeys
              /\ DOMAIN resolved[t].pivots[m].keys
                     # DOMAIN resolved[t].pivots[n].keys

(* C13.  Demand-driven production: unpivot_rows reads no row before its    *)
(* first output row is asked for; with N >= 1 pivot fields it has read the *)
(* (k+1)-th input row only after more than k*N rows have been asked for;   *)
(* it is never ahead of the input row whose output rows it hands out, and  *)
(* every row it builds is handed out by the request that built it.         *)
C13_DemandDriven ==
    \A t \in Tbl :
        LET N == Len(unpivot_fields_without_regex)
        IN  Selected(t) =>
                /\ pulls[t] = 0 => (read[t] = 0 /\ out[t] = <<>>)
                /\ N >= 1 =>
                       \A k \in 0..Len(source[t]) :
                           read[t] >= k + 1 => pulls[t] > k * N
                /\ Len(out[t]) <= pulls[t]
                /\ pulls[t] <= Len(out[t]) + 1
                /\ (pc = "expand" /\ ri = t /\ out[t] # <<>>) =>
                       /\ pulls[t] = Len(out[t])
                       /\ out[t][Len(out[t])].src = read[t]

\* the second input row has been read on the third request, two pivot fields
C13_Witness ==
    \E t \in Tbl :
        /\ Selected(t) /\ pc = "expand" /\ ri = t
        /\ Len(unpivot_fields_without_regex) = 2
        /\ pulls[t] = 3 /\ read[t] = 2

\* some spec has a name that does not compile
HasInvalid == \E j \in 1..Len(unpivot_fields) : ~unpivot_fields[j].name.valid

\* some table is matched and has a schema
SomeTransformed == \E t \in Tbl : Transformed(t)

\* the first table that is matched and has a schema
FirstTransformed ==
    CHOOSE t \in Tbl : Transformed(t) /\ \A u \in Tbl : Transformed(u) => t <= u

C15_UpstreamFailure ==
    \A t \in Tbl :
        LET N == Len(unpivot_fields_without_regex)
        IN  (failing = t /\ Selected(t)) =>
                /\ ~Consumed(t)
                /\ read[t] <= Len(source[t])
                /\ err = "SourceError" =>
                       /\ pc = "error" /\ ri = t
                       /\ read[t] = Len(source[t])
                       /\ Len(out[t]) = Len(source[t]) * N
                       /\ \A n \in 1..Len(out[t]) :
                              /\ out[t][n].src = ((n - 1) \div N) + 1
                              /\ out[t][n].p = ((n - 1) % N) + 1

\* the source of a transformed table has failed after delivering rows that
\* were expanded over two pivot fields
C15_Witness ==
    \E t \in Tbl :
        /\ failing = t /\ Transformed(t) /\ err = "SourceError"
        /\ Len(source[t]) >= 1
        /\ Len(unpivot_fields_without_regex) >= 2
        /\ Len(out[t]) = Len(source[t]) * Len(unpivot_fields_without_regex)

\* what a step leaves as it is
Frame ==
    /\ args' = args
    /\ Len(pkg') = Len(pkg)
    /\ \A t \in 1..Len(pkg) :
          /\ pkg'[t].name = pkg[t].name
          /\ pkg'[t].hasSchema = pkg[t].hasSchema
          /\ ~(pkg[t].name \in resources /\ pkg[t].hasSchema) =>
                 pkg'[t] = pkg[t]

(* C16.  Frame of schema resolution: no step changes anything but the      *)
(* schema field list of a matched table that has a schema: the number and  *)
(* order of the tables, the descriptors of the other tables and the        *)
(* configuration stay as they are.                                         *)
C16_FrameOfSchemaResolution == [][Frame]_vars

\* the schema pass has rewritten a table and left another one, which has a
\* schema but is not matched, as it was
C16_Witness ==
    /\ emitted
    /\ \E t, u \in Tbl :
          /\ Transformed(t) /\ pkg[t] # pkg0[t]
          /\ ~Selected(u) /\ pkg0[u].hasSchema /\ pkg[u] = pkg0[u]

(* C17.  Every recorded pivot field carries a keys mapping equal to the    *)
(* resolved keys of the spec that matched it, empty when the spec declares *)
(* no key, so that unpivot_rows never fails for lack of a keys mapping.    *)
C17_KeysAlwaysRecorded ==
    /\ \A pf \in Recorded :
          /\ pf.hasKeys
          /\ pf.keys = new_key_values(unpivot_fields[FirstSpec(pf.name)], pf)
    /\ ~(err = "KeyError" /\ ~CurrentPivot.hasKeys)

====
